---- MODULE Spec2Model ----
(***************************************************************************)
(* A model of the "Create Jira Story" action (src/index.js): the HTTP      *)
(* helper sendHttpRequest with its retry and backoff, and the workflow     *)
(* createOrUpdateJiraStory that searches, resolves the sprint, compares    *)
(* descriptions and then updates or creates one issue.                     *)
(*                                                                         *)
(* Texts are sequences of tokens.  A token is either the newline           *)
(* character, one of the two trailer labels, or a run of characters that   *)
(* holds no newline.  The tracker is the environment: it answers every     *)
(* HTTP attempt with a status and a body, or the attempt ends in a         *)
(* network error.  A request the tracker answers with 2xx has been         *)
(* processed; any other attempt has left the tracker unchanged.            *)
(*                                                                         *)
(* Spec is a sequence of runs, one after the other, in which every attempt *)
(* fires one of its two handlers.  SpecLive adds the fairness of the event *)
(* loop.  SpecLate is a run in which an error event follows an answer.     *)
(* SpecConcurrent is two runs at the same time.  SpecStrip applies         *)
(* removeTimestamp, on its own, to bounded texts.                          *)
(***************************************************************************)
EXTENDS Integers, Sequences, FiniteSets, TLC

\* Number of consecutive, non-overlapping runs of the action that are explored.
MaxRuns == 2

\* sendHttpRequest(method, path, data, retries = 3, delay = 1000)
DefaultRetries == 3
DefaultDelay == 1000

NL == "\n"
LastUpdatedLabel == "Last updated: "
ZuletztLabel == "Zuletzt aktualisiert: "
Undefined == "undefined"

requiredInputs ==
  << "jira_base_url", "jira_user_email", "jira_api_token", "jira_project_key",
     "issue_summary", "issue_description", "board_id", "sprint_name" >>

Min(S) == CHOOSE m \in S : \A n \in S : m <= n

Max(S) == CHOOSE m \in S : \A n \in S : m >= n

----------------------------------------------------------------------------
(* Errors: the name of the error class and its message, as a token list.   *)

NoError == [name |-> "", message |-> <<>>]

Error(message) == [name |-> "Error", message |-> message]

TypeError(message) == [name |-> "TypeError", message |-> message]

----------------------------------------------------------------------------
(* removeTimestamp: description.replace(/\n\nLast updated: .+$/, "").      *)
(* The match starts at two newlines followed by the label and must run to  *)
(* the end of the text through one or more characters, none a newline.     *)

NoNewline(s) == \A i \in 1..Len(s) : s[i] # NL

TrailerAt(s, i) ==
  /\ i + 3 <= Len(s)
  /\ s[i] = NL
  /\ s[i + 1] = NL
  /\ s[i + 2] = LastUpdatedLabel
  /\ NoNewline(SubSeq(s, i + 3, Len(s)))

\* As with the pattern /Last updated: .+$/, which leaves the two newlines.
removeTimestampLabelOnly(description) ==
  LET matches == {i \in 1..Len(description) :
                    /\ i + 1 <= Len(description)
                    /\ description[i] = LastUpdatedLabel
                    /\ NoNewline(SubSeq(description, i + 1, Len(description)))}
  IN  IF matches = {} THEN description
      ELSE SubSeq(description, 1, Min(matches) - 1)

\* As with a pattern that removes only the end of the timestamp.
removeTimestampLastToken(description) ==
  IF \E i \in 1..Len(description) : TrailerAt(description, i)
  THEN SubSeq(description, 1, Len(description) - 1)
  ELSE description

removeTimestamp(description) ==
  LET matches == {i \in 1..Len(description) : TrailerAt(description, i)}
  IN  IF matches = {} THEN description
      ELSE SubSeq(description, 1, Min(matches) - 1)

\* The clock of the n-th run, formatted for de-DE in Europe/Berlin.
FormattedTimestamps ==
  << "01.01.2024, 10:00:00", "02.01.2024, 10:00:00",
     "03.01.2024, 10:00:00", "04.01.2024, 10:00:00" >>

formatDateTimeGerman(date) == FormattedTimestamps[date]

\* `${issueDescription}\n\nZuletzt aktualisiert: ${formattedTimestamp}`
UpdatedDescription(issueDescription, date) ==
  issueDescription \o <<NL, NL, ZuletztLabel, formatDateTimeGerman(date)>>

\* existingIssue.fields.description || ""
Null == <<"<null>">>

OrEmpty(description) == IF description = Null THEN <<>> ELSE description

NeedsUpdateNoStrip(existingDescription, issueDescription) ==
  existingDescription # issueDescription

NeedsUpdateInverted(existingDescription, issueDescription) ==
  removeTimestamp(existingDescription) = removeTimestamp(issueDescription)

\* removeTimestamp(existingDescription) !== removeTimestamp(issueDescription)
NeedsUpdate(existingDescription, issueDescription) ==
  removeTimestamp(existingDescription) # removeTimestamp(issueDescription)

----------------------------------------------------------------------------
(* validateInputs: the first required input whose value is empty.          *)

MissingInputs(inp) ==
  {i \in 1..Len(requiredInputs) : inp[requiredInputs[i]] = <<>>}

validateInputsLast(inp) ==
  IF MissingInputs(inp) = {} THEN NoError
  ELSE Error(<<"Missing required input: ",
               requiredInputs[Max(MissingInputs(inp))]>>)

validateInputs(inp) ==
  IF MissingInputs(inp) = {} THEN NoError
  ELSE Error(<<"Missing required input: ",
               requiredInputs[Min(MissingInputs(inp))]>>)

----------------------------------------------------------------------------
(* The configurations and the tracker contents that are explored.          *)

Trailer(label, stamp) == <<NL, NL, label, stamp>>

OldStamp == "31.12.2023, 09:00:00"

DesiredDescriptions ==
  { <<"Fix login">>, <<"Fix login flow">>,
    <<"Fix login">> \o Trailer(LastUpdatedLabel, OldStamp) }

StoredDescriptions ==
  { Null, <<"Fix login">>, <<"Fix login flow">>,
    <<"Fix login">> \o Trailer(LastUpdatedLabel, OldStamp),
    <<"Fix login">> \o Trailer(ZuletztLabel, OldStamp) }

KeyName(n) == "PROJ-" \o ToString(n)

Issue(n, description) == [key |-> KeyName(n), description |-> description]

IssueLists ==
  {<<>>}
  \cup {<<Issue(5, d)>> : d \in StoredDescriptions}
  \cup {<<Issue(5, d), Issue(6, <<"Other">>)>> : d \in StoredDescriptions}

Sprint(id, name) == [id |-> id, name |-> <<name>>]

SprintLists ==
  { <<>>, <<Sprint(1, "backlog")>>, <<Sprint(1, "backlog"), Sprint(2, "Backlog")>> }

FullInputs(description) ==
  [ jira_base_url |-> <<"https://jira.example">>,
    jira_user_email |-> <<"bot@example.com">>,
    jira_api_token |-> <<"token">>,
    jira_project_key |-> <<"PROJ">>,
    issue_summary |-> <<"Fix login bug">>,
    issue_description |-> description,
    board_id |-> <<"12">>,
    sprint_name |-> <<"Backlog">>,
    retry_count |-> <<>> ]

\* action.yml declares retry_count as an optional input: absent, or a number.
RetryCounts == {<<"0">>, <<"5">>}

Without(inp, missing) ==
  [k \in DOMAIN inp |-> IF k \in missing THEN <<>> ELSE inp[k]]

InputNames == {requiredInputs[i] : i \in 1..Len(requiredInputs)}

----------------------------------------------------------------------------
VARIABLES
  inputs,              \* the action's inputs, as core.getInput returns them
  tracker,             \* the remote tracker: matching open issues, future sprints
  now,                 \* the number of the current run, which is also its clock
  wrote,               \* an earlier run's PUT or create POST was answered 2xx
  pc,                  \* where createOrUpdateJiraStory stands
  existingIssues,      \* const existingIssues = await searchJiraIssues(jql)
  updatedDescription,  \* const updatedDescription
  sprintId,            \* const sprintId = await getSprintId(sprintName)
  newIssue,            \* const newIssue = await createNewJiraIssue(...)
  http,                \* the current sendHttpRequest call and its attempts
  promise,             \* the promise the outermost sendHttpRequest returned
  calls,               \* the remote calls of this run, in order, with results
  outputs,             \* core.setOutput("issue_key", v): the values v
  failures,            \* core.setFailed(m): the messages m
  rawBody,             \* the calls of this run answered 2xx with text that is not JSON
  stray,               \* a retry chain started by an error event after the answer
  other,               \* a second run, suspended while this one takes its steps
  strip                \* removeTimestamp on its own: argument and results

vars ==
  << inputs, tracker, now, wrote, pc, existingIssues, updatedDescription,
     sprintId, newIssue, http, promise, calls, outputs, failures,
     rawBody, stray, other, strip >>

NoResponse == [kind |-> "none", issues |-> <<>>, values |-> <<>>, key |-> Undefined]

NoRequest ==
  [ state |-> "idle", op |-> "none", key |-> Undefined, description |-> <<>>,
    retries |-> DefaultRetries, delay |-> DefaultDelay,
    outcomes |-> <<>>, waits |-> <<>> ]

PendingPromise == [state |-> "pending", value |-> NoResponse, error |-> NoError]

NoIssues == [defined |-> FALSE, list |-> <<>>]

\* No error event has followed an answer.
NoStray ==
  [ state |-> "none", call |-> 0, op |-> "none", key |-> Undefined,
    description |-> <<>>, retries |-> DefaultRetries, delay |-> DefaultDelay ]

\* No second run.
NoRun == [pc |-> "none"]

\* removeTimestamp is not under study.
NoStrip == [stage |-> "none"]

InitialInputs ==
  {FullInputs(d) : d \in DesiredDescriptions}
  \cup {Without(FullInputs(<<"Fix login">>), m) : m \in SUBSET InputNames}
  \cup {[FullInputs(<<"Fix login">>) EXCEPT !.retry_count = c] : c \in RetryCounts}

InitialTrackers(inp) ==
  IF MissingInputs(inp) = {}
  THEN {[issues |-> i, sprints |-> s, nextKey |-> 7] :
          i \in IssueLists, s \in SprintLists}
  ELSE {[issues |-> <<Issue(5, <<"Fix login">>)>>,
         sprints |-> <<Sprint(2, "Backlog")>>, nextKey |-> 7]}

RunStart ==
  /\ pc = "start"
  /\ existingIssues = NoIssues
  /\ updatedDescription = <<>>
  /\ sprintId = 0
  /\ newIssue = NoResponse
  /\ http = NoRequest
  /\ promise = PendingPromise
  /\ calls = <<>>
  /\ outputs = <<>>
  /\ failures = <<>>
  /\ rawBody = {}

Init ==
  /\ inputs \in InitialInputs
  /\ tracker \in InitialTrackers(inputs)
  /\ now = 1
  /\ wrote = FALSE
  /\ RunStart
  /\ stray = NoStray
  /\ other = NoRun
  /\ strip = NoStrip

----------------------------------------------------------------------------
(* The tracker, as the REST interface of the action sees it.               *)

Statuses == {200, 299, 300, 429, 500}

BodyKinds == {"json", "empty", "raw"}

ErrorBody == "errorMessages"

\* The effect of a request the tracker has accepted.
TrackerProcess(req, t) ==
  CASE req.op = "create" ->
         [t EXCEPT !.issues = Append(@, [key |-> KeyName(t.nextKey),
                                          description |-> req.description]),
                   !.nextKey = @ + 1]
    [] req.op = "update" ->
         [t EXCEPT !.issues =
            [i \in DOMAIN @ |->
               IF @[i].key = req.key
               THEN [@[i] EXCEPT !.description = req.description] ELSE @[i]]]
    [] OTHER -> t

\* The JSON document the tracker sends with a 2xx answer.
TrackerBody(req, t) ==
  CASE req.op = "search" -> [NoResponse EXCEPT !.kind = "json", !.issues = t.issues]
    [] req.op = "sprint" -> [NoResponse EXCEPT !.kind = "json", !.values = t.sprints]
    [] req.op = "create" -> [NoResponse EXCEPT !.kind = "json", !.key = KeyName(t.nextKey)]
    [] OTHER -> [NoResponse EXCEPT !.kind = "json"]

\* What a 2xx answer resolves to: "" for an empty body, the parsed document,
\* or the raw text when JSON.parse throws.
ResponseValue(kind, req, t) ==
  IF kind = "json" THEN TrackerBody(req, t) ELSE [NoResponse EXCEPT !.kind = kind]

\* response.issues, response.values, response.key: undefined on a string.
ResponseIssues(response) ==
  IF response.kind = "json" THEN [defined |-> TRUE, list |-> response.issues]
  ELSE NoIssues

ResponseKey(response) == IF response.kind = "json" THEN response.key ELSE Undefined

----------------------------------------------------------------------------
(* sendHttpRequest                                                         *)

NewRequest(op, key, description) ==
  [ state |-> "inflight", op |-> op, key |-> key, description |-> description,
    retries |-> DefaultRetries, delay |-> DefaultDelay,
    outcomes |-> <<>>, waits |-> <<>> ]

IsSuccess(statusCode) == statusCode >= 200 /\ statusCode < 300

ShouldRetryStatusNot2xx(statusCode, retries) == statusCode >= 300 /\ retries > 0

ShouldRetryStatusAtZero(statusCode, retries) == statusCode = 429 /\ retries >= 0

\* res.statusCode === 429 && retries > 0
ShouldRetryStatus(statusCode, retries) == statusCode = 429 /\ retries > 0

ShouldRetryErrorNever(retries) == FALSE

ShouldRetryErrorAtZero(retries) == retries >= 0

\* req.on("error"): if (retries > 0)
ShouldRetryError(retries) == retries > 0

NextDelayLinear(delay) == delay + DefaultDelay

\* delay * 2
NextDelay(delay) == delay * 2

HttpError(statusCode) == Error(<<"HTTP ", ToString(statusCode), ": ", ErrorBody>>)

NetworkError == Error(<<"socket hang up">>)

MarkLast(log, result) == [log EXCEPT ![Len(log)].result = result]

Resolve(value) ==
  /\ promise' = [state |-> "resolved", value |-> value, error |-> NoError]
  /\ calls' = MarkLast(calls, "resolved")

Reject(error) ==
  /\ promise' = [state |-> "rejected", value |-> NoResponse, error |-> error]
  /\ calls' = MarkLast(calls, "rejected")

\* res.on("end", ...): the answer of the tracker to the attempt in flight.
ResponseEnd(statusCode, kind) ==
  /\ http.state = "inflight"
  /\ IF IsSuccess(statusCode)
     THEN /\ Resolve(ResponseValue(kind, http, tracker))
          /\ tracker' = TrackerProcess(http, tracker)
          /\ rawBody' = IF kind = "raw" THEN rawBody \cup {http.op} ELSE rawBody
          /\ http' = [http EXCEPT !.state = "idle",
                                   !.outcomes = Append(@, ToString(statusCode))]
     ELSE IF ShouldRetryStatus(statusCode, http.retries)
     THEN /\ kind = "raw"      \* the body of an error answer is only text
          /\ http' = [http EXCEPT !.state = "timer",
                                   !.outcomes = Append(@, ToString(statusCode)),
                                   !.waits = Append(@, http.delay)]
          /\ UNCHANGED <<promise, calls, tracker, rawBody>>
     ELSE /\ kind = "raw"
          /\ Reject(HttpError(statusCode))
          /\ http' = [http EXCEPT !.state = "idle",
                                   !.outcomes = Append(@, ToString(statusCode))]
          /\ UNCHANGED <<tracker, rawBody>>
  /\ UNCHANGED << strip, stray, other,
                  inputs, now, wrote, pc, existingIssues, updatedDescription,
                  sprintId, newIssue, outputs, failures >>

\* req.on("error", ...): the attempt in flight ends in a network error.
RequestError ==
  /\ http.state = "inflight"
  /\ IF ShouldRetryError(http.retries)
     THEN /\ http' = [http EXCEPT !.state = "timer",
                                   !.outcomes = Append(@, "error"),
                                   !.waits = Append(@, http.delay)]
          /\ UNCHANGED <<promise, calls>>
     ELSE /\ Reject(NetworkError)
          /\ http' = [http EXCEPT !.state = "idle",
                                   !.outcomes = Append(@, "error")]
  /\ UNCHANGED << strip, stray, other, rawBody,
                  inputs, tracker, now, wrote, pc, existingIssues,
                  updatedDescription, sprintId, newIssue, outputs, failures >>

\* The setTimeout callback: sendHttpRequest(method, path, data, retries - 1, delay * 2)
RetryTimer ==
  /\ http.state = "timer"
  /\ http' = [http EXCEPT !.state = "inflight",
                           !.retries = @ - 1,
                           !.delay = NextDelay(@)]
  /\ UNCHANGED << strip, stray, other, rawBody,
                  inputs, tracker, now, wrote, pc, existingIssues,
                  updatedDescription, sprintId, newIssue, promise, calls,
                  outputs, failures >>

----------------------------------------------------------------------------
(* createOrUpdateJiraStory and the functions it awaits                     *)

FailedPrefix == "Failed to create or update Jira issue: "

UnhandledPrefix == "Unhandled error: "

\* catch (error) { core.setFailed(...); throw error; }
Throw(error) ==
  /\ failures' = Append(failures, [prefix |-> FailedPrefix, message |-> error.message])
  /\ pc' = "rejected"
  /\ UNCHANGED <<http, promise, calls, outputs>>

\* await sendHttpRequest(...): the request is sent and the workflow suspends.
Call(op, key, description, next) ==
  /\ http' = NewRequest(op, key, description)
  /\ promise' = PendingPromise
  /\ calls' = Append(calls, [op |-> op, key |-> key, result |-> "pending"])
  /\ pc' = next
  /\ UNCHANGED <<outputs, failures>>

\* core.setOutput("issue_key", key) as the last statement of the run.
Finish(key) ==
  /\ outputs' = Append(outputs, key)
  /\ pc' = "done"
  /\ UNCHANGED <<http, promise, calls, failures>>

Lower(name) == [i \in DOMAIN name |-> IF name[i] = "Backlog" THEN "backlog" ELSE name[i]]

FindSprintIgnoreCase(values, sprintName) ==
  LET found == {i \in 1..Len(values) : Lower(values[i].name) = Lower(sprintName)}
  IN  IF found = {} THEN 0 ELSE Min(found)

\* response.values.find((s) => s.name === sprintName): its position, 0 if none.
FindSprint(values, sprintName) ==
  LET found == {i \in 1..Len(values) : values[i].name = sprintName}
  IN  IF found = {} THEN 0 ELSE Min(found)

SprintNotFound(sprintName) == Error(<<"Sprint \"">> \o sprintName \o <<"\" not found">>)

HasExistingMoreThanOne(issues) == Len(issues) > 1

HasExistingNever(issues) == FALSE

\* existingIssues.length > 0
HasExisting(issues) == Len(issues) > 0

LastIssue(issues) == issues[Len(issues)]

\* const existingIssue = existingIssues[0]
FirstIssue(issues) == issues[1]

ThenAssignOnlyCreated(op) == op = "create"

\* await addIssueToSprint(...) follows updateJiraIssue and createNewJiraIssue.
ThenAssign(op) == op \in {"update", "create"}

\* validateInputs(); then searchJiraIssues(jql) sends its request.
Start ==
  /\ pc = "start"
  /\ IF validateInputs(inputs) # NoError
     THEN Throw(validateInputs(inputs))
     ELSE Call("search", Undefined, <<>>, "searching")
  /\ UNCHANGED << strip, stray, other, rawBody,
                  inputs, tracker, now, wrote, existingIssues,
                  updatedDescription, sprintId, newIssue >>

\* searchJiraIssues returns response.issues; then getSprintId sends its request.
AfterSearch ==
  /\ pc = "searching"
  /\ promise.state # "pending"
  /\ IF promise.state = "rejected"
     THEN /\ Throw(promise.error)
          /\ UNCHANGED <<existingIssues, updatedDescription>>
     ELSE /\ existingIssues' = ResponseIssues(promise.value)
          /\ updatedDescription' = UpdatedDescription(inputs.issue_description, now)
          /\ Call("sprint", Undefined, <<>>, "resolvingSprint")
  /\ UNCHANGED <<strip, stray, other, rawBody,
                 inputs, tracker, now, wrote, sprintId, newIssue>>

\* getSprintId returns; the run compares and then updates, creates or finishes.
AfterSprint ==
  /\ pc = "resolvingSprint"
  /\ promise.state # "pending"
  /\ IF promise.state = "rejected"
     THEN Throw(promise.error) /\ UNCHANGED sprintId
     ELSE IF promise.value.kind # "json"
     THEN /\ Throw(TypeError(<<"Cannot read properties of undefined (reading 'find')">>))
          /\ UNCHANGED sprintId
     ELSE LET values == promise.value.values
              sprint == FindSprint(values, inputs.sprint_name)
          IN  IF sprint = 0 \/ values[sprint].id = 0
              THEN Throw(SprintNotFound(inputs.sprint_name)) /\ UNCHANGED sprintId
              ELSE /\ sprintId' = values[sprint].id
                   /\ IF ~existingIssues.defined
                      THEN Throw(TypeError(
                             <<"Cannot read properties of undefined (reading 'length')">>))
                      ELSE IF HasExisting(existingIssues.list)
                      THEN LET existingIssue == FirstIssue(existingIssues.list)
                               existingDescription == OrEmpty(existingIssue.description)
                           IN  IF NeedsUpdate(existingDescription, inputs.issue_description)
                               THEN Call("update", existingIssue.key,
                                         updatedDescription, "updating")
                               ELSE Finish(existingIssue.key)
                      ELSE Call("create", Undefined, updatedDescription, "creating")
  /\ UNCHANGED << strip, stray, other, rawBody,
                  inputs, tracker, now, wrote, existingIssues,
                  updatedDescription, newIssue >>

\* updateJiraIssue returns; addIssueToSprint(existingIssue.key, sprintId) is sent.
AfterUpdate ==
  /\ pc = "updating"
  /\ promise.state # "pending"
  /\ IF promise.state = "rejected"
     THEN Throw(promise.error)
     ELSE IF ThenAssign("update")
     THEN Call("assign", FirstIssue(existingIssues.list).key, <<>>, "assigningExisting")
     ELSE Finish(FirstIssue(existingIssues.list).key)
  /\ UNCHANGED << strip, stray, other, rawBody,
                  inputs, tracker, now, wrote, existingIssues,
                  updatedDescription, sprintId, newIssue >>

\* createNewJiraIssue returns the response; addIssueToSprint(newIssue.key, sprintId).
AfterCreate ==
  /\ pc = "creating"
  /\ promise.state # "pending"
  /\ IF promise.state = "rejected"
     THEN Throw(promise.error) /\ UNCHANGED newIssue
     ELSE /\ newIssue' = promise.value
          /\ IF ThenAssign("create")
             THEN Call("assign", ResponseKey(promise.value), <<>>, "assigningNew")
             ELSE Finish(ResponseKey(promise.value))
  /\ UNCHANGED << strip, stray, other, rawBody,
                  inputs, tracker, now, wrote, existingIssues,
                  updatedDescription, sprintId >>

\* addIssueToSprint returns; core.setOutput("issue_key", ...).
AfterAssign ==
  /\ pc \in {"assigningExisting", "assigningNew"}
  /\ promise.state # "pending"
  /\ IF promise.state = "rejected"
     THEN Throw(promise.error)
     ELSE IF pc = "assigningExisting"
     THEN Finish(FirstIssue(existingIssues.list).key)
     ELSE Finish(ResponseKey(newIssue))
  /\ UNCHANGED << strip, stray, other, rawBody,
                  inputs, tracker, now, wrote, existingIssues,
                  updatedDescription, sprintId, newIssue >>

\* createOrUpdateJiraStory().catch((error) => core.setFailed(...))
UnhandledCatch ==
  /\ pc = "rejected"
  /\ failures' = Append(failures, [prefix |-> UnhandledPrefix,
                                    message |-> failures[Len(failures)].message])
  /\ pc' = "failed"
  /\ UNCHANGED << strip, stray, other, rawBody,
                  inputs, tracker, now, wrote, existingIssues, updatedDescription,
                  sprintId, newIssue, http, promise, calls, outputs >>

Ended == pc \in {"done", "failed"}

Wrote(log) ==
  \E i \in 1..Len(log) : log[i].op \in {"update", "create"} /\ log[i].result = "resolved"

\* The workflow is triggered again with the same inputs; the process starts afresh.
NewRun ==
  /\ Ended
  /\ now < MaxRuns
  /\ now' = now + 1
  /\ wrote' = Wrote(calls)
  /\ pc' = "start"
  /\ existingIssues' = NoIssues
  /\ updatedDescription' = <<>>
  /\ sprintId' = 0
  /\ newIssue' = NoResponse
  /\ http' = NoRequest
  /\ promise' = PendingPromise
  /\ calls' = <<>>
  /\ outputs' = <<>>
  /\ failures' = <<>>
  /\ rawBody' = {}
  /\ UNCHANGED <<strip, stray, other, inputs, tracker>>

----------------------------------------------------------------------------
(* removeTimestamp on its own, applied to bounded texts.                   *)

MaxDescLen == 4
MaxStampLen == 2

\* What a text is made of: a run of characters, a newline, the label.
TextTokens == {"a", NL, LastUpdatedLabel}

Texts(n) == UNION {[1..k -> TextTokens] : k \in 0..n}

StripInput(description, stamp) ==
  [ stage |-> "input", made |-> "none", description |-> description,
    stamp |-> stamp, text |-> <<>>, once |-> <<>>, twice |-> <<>> ]

InitStrip ==
  /\ inputs = FullInputs(<<"Fix login">>)
  /\ tracker = [issues |-> <<>>, sprints |-> <<>>, nextKey |-> 7]
  /\ now = 1
  /\ wrote = FALSE
  /\ RunStart
  /\ stray = NoStray
  /\ other = NoRun
  /\ strip \in {StripInput(d, t) : d \in Texts(MaxDescLen), t \in Texts(MaxStampLen)}

\* The argument is a description followed by "\n\nLast updated: " and a stamp.
WithTrailer ==
  /\ strip.stage = "input"
  /\ strip' = [strip EXCEPT
       !.stage = "text", !.made = "trailer",
       !.text = strip.description \o <<NL, NL, LastUpdatedLabel>> \o strip.stamp]
  /\ UNCHANGED << inputs, tracker, now, wrote, pc, existingIssues,
                  updatedDescription, sprintId, newIssue, http, promise, calls,
                  outputs, failures, rawBody, stray, other >>

\* The argument is a description as it is stored or given.
AsGiven ==
  /\ strip.stage = "input"
  /\ strip.stamp = <<>>
  /\ strip' = [strip EXCEPT !.stage = "text", !.made = "given",
                            !.text = strip.description]
  /\ UNCHANGED << inputs, tracker, now, wrote, pc, existingIssues,
                  updatedDescription, sprintId, newIssue, http, promise, calls,
                  outputs, failures, rawBody, stray, other >>

\* removeTimestamp(text)
StripOnce ==
  /\ strip.stage = "text"
  /\ strip' = [strip EXCEPT !.stage = "once", !.once = removeTimestamp(strip.text)]
  /\ UNCHANGED << inputs, tracker, now, wrote, pc, existingIssues,
                  updatedDescription, sprintId, newIssue, http, promise, calls,
                  outputs, failures, rawBody, stray, other >>

\* removeTimestamp(removeTimestamp(text))
StripTwice ==
  /\ strip.stage = "once"
  /\ strip' = [strip EXCEPT !.stage = "twice", !.twice = removeTimestamp(strip.once)]
  /\ UNCHANGED << inputs, tracker, now, wrote, pc, existingIssues,
                  updatedDescription, sprintId, newIssue, http, promise, calls,
                  outputs, failures, rawBody, stray, other >>

NextStrip == WithTrailer \/ AsGiven \/ StripOnce \/ StripTwice

SpecStrip == InitStrip /\ [][NextStrip]_vars

----------------------------------------------------------------------------
\* The steps of one run.
RunStep ==
  \/ Start
  \/ \E statusCode \in Statuses, kind \in BodyKinds : ResponseEnd(statusCode, kind)
  \/ RequestError
  \/ RetryTimer
  \/ AfterSearch
  \/ AfterSprint
  \/ AfterUpdate
  \/ AfterCreate
  \/ AfterAssign
  \/ UnhandledCatch

Next == RunStep \/ NewRun

Spec == Init /\ [][Next]_vars

----------------------------------------------------------------------------
(* One run in which the request of one attempt emits "error" after its     *)
(* response has ended.  Nothing in sendHttpRequest tells the handler of    *)
(* req.on("error") that the handler of res.on("end") has already run, so   *)
(* it starts a retry chain of its own: stray.  The chain that settles the  *)
(* promise is kept in http; the one left over is kept in stray.            *)

\* The stray chain's call is the one the workflow awaits, still unsettled.
StraySettles == stray.call = Len(calls) /\ promise.state = "pending"

\* A chain of the request req of call number call, in the given state.
Chain(req, state, call) ==
  [ state |-> state, call |-> call, op |-> req.op, key |-> req.key,
    description |-> req.description, retries |-> req.retries,
    delay |-> req.delay ]

\* The stray chain ends its call; the chain in http goes on unheard.
StrayWins(outcome) ==
  /\ http' = [http EXCEPT !.state = "idle", !.retries = stray.retries,
                          !.delay = stray.delay, !.outcomes = Append(@, outcome)]
  /\ stray' = Chain(http, http.state, stray.call)

StrayEnds == stray' = [stray EXCEPT !.state = "idle"]

LateRequestError ==
  /\ stray.state = "none"
  /\ http.state \in {"idle", "timer"}
  /\ Len(http.outcomes) > 0
  /\ http.outcomes[Len(http.outcomes)] # "error"
  /\ IF ShouldRetryError(http.retries)
     THEN stray' = Chain(http, "timer", Len(calls))
     ELSE \* reject(error) on a promise that is settled
          stray' = Chain(http, "idle", Len(calls))
  /\ UNCHANGED << inputs, tracker, now, wrote, pc, existingIssues,
                  updatedDescription, sprintId, newIssue, http, promise, calls,
                  outputs, failures, rawBody, other, strip >>

StrayTimer ==
  /\ stray.state = "timer"
  /\ stray' = [stray EXCEPT !.state = "inflight",
                             !.retries = @ - 1,
                             !.delay = NextDelay(@)]
  /\ UNCHANGED << inputs, tracker, now, wrote, pc, existingIssues,
                  updatedDescription, sprintId, newIssue, http, promise, calls,
                  outputs, failures, rawBody, other, strip >>

StrayResponseEnd(statusCode, kind) ==
  /\ stray.state = "inflight"
  /\ IF IsSuccess(statusCode)
     THEN /\ tracker' = TrackerProcess(stray, tracker)
          /\ IF StraySettles
             THEN /\ Resolve(ResponseValue(kind, stray, tracker))
                  /\ StrayWins(ToString(statusCode))
                  /\ rawBody' = IF kind = "raw" THEN rawBody \cup {stray.op}
                                                ELSE rawBody
             ELSE /\ kind = "raw"      \* nobody reads the answer
                  /\ StrayEnds
                  /\ UNCHANGED <<http, promise, calls, rawBody>>
     ELSE IF ShouldRetryStatus(statusCode, stray.retries)
     THEN /\ kind = "raw"
          /\ stray' = [stray EXCEPT !.state = "timer"]
          /\ UNCHANGED <<http, promise, calls, tracker, rawBody>>
     ELSE /\ kind = "raw"
          /\ IF StraySettles
             THEN Reject(HttpError(statusCode)) /\ StrayWins(ToString(statusCode))
             ELSE StrayEnds /\ UNCHANGED <<http, promise, calls>>
          /\ UNCHANGED <<tracker, rawBody>>
  /\ UNCHANGED << inputs, now, wrote, pc, existingIssues, updatedDescription,
                  sprintId, newIssue, outputs, failures, other, strip >>

StrayRequestError ==
  /\ stray.state = "inflight"
  /\ IF ShouldRetryError(stray.retries)
     THEN /\ stray' = [stray EXCEPT !.state = "timer"]
          /\ UNCHANGED <<http, promise, calls>>
     ELSE IF StraySettles
     THEN Reject(NetworkError) /\ StrayWins("error")
     ELSE StrayEnds /\ UNCHANGED <<http, promise, calls>>
  /\ UNCHANGED << inputs, tracker, now, wrote, pc, existingIssues,
                  updatedDescription, sprintId, newIssue, outputs, failures,
                  rawBody, other, strip >>

\* A tracker without a matching issue, and one whose issue is to be updated.
SampleTrackers ==
  {[issues |-> i, sprints |-> <<Sprint(2, "Backlog")>>, nextKey |-> 7] :
     i \in {<<>>, <<Issue(5, <<"Old text">>)>>}}

InitSample ==
  /\ inputs = FullInputs(<<"Fix login">>)
  /\ tracker \in SampleTrackers
  /\ now = 1
  /\ wrote = FALSE
  /\ RunStart
  /\ stray = NoStray
  /\ other = NoRun
  /\ strip = NoStrip

NextLate ==
  \/ RunStep
  \/ LateRequestError
  \/ StrayTimer
  \/ \E statusCode \in Statuses, kind \in BodyKinds :
        StrayResponseEnd(statusCode, kind)
  \/ StrayRequestError

SpecLate == InitSample /\ [][NextLate]_vars

----------------------------------------------------------------------------
(* Runs in which every step that can be taken is taken in the end: every   *)
(* attempt yields an answer or a network error, every timer fires, and     *)
(* every continuation of the workflow is run by the event loop.  Whether a *)
(* further run is started is left open.                                    *)

SpecLive == InitSample /\ [][Next]_vars /\ WF_vars(RunStep)

----------------------------------------------------------------------------
(* Two runs of the action at the same time, with the same inputs, on one   *)
(* tracker.  The steps above are those of the run that is executing; the   *)
(* state of the run that is not is kept in other.  A run gives way only    *)
(* while it awaits the answer to the first attempt of a call, or before    *)
(* its start or after its end: each request the tracker processes lies     *)
(* between two such points, so the requests of the two runs reach the      *)
(* tracker in every order.  Of a run that has ended, and whose process has *)
(* exited, what it reported is kept: it takes no further step.             *)

ThisRun ==
  [ now |-> now, pc |-> pc, existingIssues |-> existingIssues,
    updatedDescription |-> updatedDescription, sprintId |-> sprintId,
    newIssue |-> newIssue, http |-> http, promise |-> promise,
    calls |-> calls, outputs |-> outputs, failures |-> failures,
    rawBody |-> rawBody ]

\* The second run before its start; its clock shows the next second.
SecondRun ==
  [ now |-> 2, pc |-> "start", existingIssues |-> NoIssues,
    updatedDescription |-> <<>>, sprintId |-> 0, newIssue |-> NoResponse,
    http |-> NoRequest, promise |-> PendingPromise, calls |-> <<>>,
    outputs |-> <<>>, failures |-> <<>>, rawBody |-> {} ]

AwaitsFirstAnswer == http.state = "inflight" /\ http.outcomes = <<>>

\* What is left of a run when its process has exited.
Exited(run) == [run EXCEPT !.http = NoRequest, !.promise = PendingPromise]

Switch ==
  /\ other.pc \notin {"none", "done", "failed"}
  /\ pc = "start" \/ Ended \/ AwaitsFirstAnswer
  /\ other' = IF Ended THEN Exited(ThisRun) ELSE ThisRun
  /\ now' = other.now
  /\ pc' = other.pc
  /\ existingIssues' = other.existingIssues
  /\ updatedDescription' = other.updatedDescription
  /\ sprintId' = other.sprintId
  /\ newIssue' = other.newIssue
  /\ http' = other.http
  /\ promise' = other.promise
  /\ calls' = other.calls
  /\ outputs' = other.outputs
  /\ failures' = other.failures
  /\ rawBody' = other.rawBody
  /\ UNCHANGED <<inputs, tracker, wrote, stray, strip>>

\* A tracker holding no issue for the summary.
InitConcurrent ==
  /\ inputs = FullInputs(<<"Fix login">>)
  /\ tracker = [issues |-> <<>>, sprints |-> <<Sprint(2, "Backlog")>>, nextKey |-> 7]
  /\ now = 1
  /\ wrote = FALSE
  /\ RunStart
  /\ stray = NoStray
  /\ other = SecondRun
  /\ strip = NoStrip

NextConcurrent == RunStep \/ Switch

SpecConcurrent == InitConcurrent /\ [][NextConcurrent]_vars

----------------------------------------------------------------------------
(* What the claims speak of, read off the state of one run.                *)

OpsOf(log) == [i \in DOMAIN log |-> log[i].op]

CallsTo(ops) == {i \in 1..Len(calls) : calls[i].op \in ops}

AllResolved == \A i \in 1..Len(calls) : calls[i].result = "resolved"

\* The search returned at least one issue.
Found == existingIssues.defined /\ Len(existingIssues.list) > 0

\* The search returned an empty list.
NotFound == existingIssues.defined /\ Len(existingIssues.list) = 0

FoundKey == existingIssues.list[1].key

StoredDescription == OrEmpty(existingIssues.list[1].description)

StrippedEqual ==
  removeTimestamp(StoredDescription) = removeTimestamp(inputs.issue_description)

SprintResolved == sprintId # 0

SprintAbsent ==
  \A i \in 1..Len(tracker.sprints) : tracker.sprints[i].name # inputs.sprint_name

----------------------------------------------------------------------------
(* C1: a run that follows a run which created or updated the issue, with   *)
(* the same inputs and an otherwise unchanged tracker, finds the stored    *)
(* and the desired description equal after stripping and sends no PUT and  *)
(* no sprint assignment.                                                   *)
C1_RerunNeverRewrites ==
  wrote => /\ Found => StrippedEqual
           /\ CallsTo({"update", "assign"}) = {}

(* C2, as stated: when the search returned an issue whose stripped         *)
(* description equals the stripped desired one, the run sends no PUT and   *)
(* no sprint assignment and ends with that issue's key as its output.      *)
C2_OutputWheneverEqual ==
  (Found /\ StrippedEqual) =>
     /\ CallsTo({"update", "assign"}) = {}
     /\ Ended => outputs = <<FoundKey>>

(* C2, amended: under the same condition the run sends no PUT, no create   *)
(* and no sprint assignment; if sprint resolution succeeds it ends at once *)
(* with that issue's key as its only output and no failure, and otherwise  *)
(* it fails without output.                                                *)
C2_NoMutationWhenEqual ==
  (Found /\ StrippedEqual) =>
     /\ CallsTo({"update", "assign", "create"}) = {}
     /\ SprintResolved => pc = "done" /\ outputs = <<FoundKey>> /\ failures = <<>>
     /\ (Ended /\ ~SprintResolved) => pc = "failed" /\ outputs = <<>>

C2_Witness ==
  /\ pc = "done"
  /\ Found
  /\ existingIssues.list[1].description =
        <<"Fix login">> \o Trailer(LastUpdatedLabel, OldStamp)
  /\ inputs.issue_description = <<"Fix login">>
  /\ outputs = <<"PROJ-5">>
  /\ OpsOf(calls) = <<"search", "sprint">>

(* C3: when the search returned an issue whose stripped description        *)
(* differs from the stripped desired one, a sprint assignment is only sent *)
(* after the PUT to that issue has completed, no create is sent, and a run *)
(* in which every remote call succeeded has made exactly one PUT and then  *)
(* exactly one sprint assignment, both for that issue, and has that        *)
(* issue's key as its output.                                              *)
C3_UpdateThenAssign ==
  (Found /\ ~StrippedEqual) =>
     /\ CallsTo({"create"}) = {}
     /\ \A i \in CallsTo({"assign"}) :
          /\ i > 1
          /\ calls[i - 1] = [op |-> "update", key |-> FoundKey, result |-> "resolved"]
     /\ (Ended /\ AllResolved /\ SprintResolved) =>
          /\ calls = << [op |-> "search", key |-> Undefined, result |-> "resolved"],
                        [op |-> "sprint", key |-> Undefined, result |-> "resolved"],
                        [op |-> "update", key |-> FoundKey, result |-> "resolved"],
                        [op |-> "assign", key |-> FoundKey, result |-> "resolved"] >>
          /\ outputs = <<FoundKey>>
          /\ failures = <<>>

C3_Witness ==
  /\ pc = "done"
  /\ Found
  /\ ~StrippedEqual
  /\ AllResolved
  /\ OpsOf(calls) = <<"search", "sprint", "update", "assign">>
  /\ tracker.issues[1].description = updatedDescription

(* C4: when the search returned no issue and the sprint is resolved, the   *)
(* run sends the create POST, sends no PUT, and once the create POST has   *)
(* succeeded sends the sprint assignment for the key of the new issue.     *)
C4_CreateThenAssignNewKey ==
  (NotFound /\ SprintResolved) =>
     /\ CallsTo({"update"}) = {}
     /\ Len(calls) >= 3
     /\ calls[3].op = "create"
     /\ (calls[3].result = "resolved" /\ pc # "creating") =>
          /\ Len(calls) = 4
          /\ calls[4].op = "assign"
     /\ \A i \in CallsTo({"assign"}) :
          /\ i = 4
          /\ calls[3].result = "resolved"
          /\ calls[i].key = tracker.issues[Len(tracker.issues)].key

(* C5: when no future sprint of the board has exactly the requested name,  *)
(* the run sends no create POST, no PUT and no sprint assignment, and it   *)
(* ends failed, without output.                                            *)
C5_NoMutationWithoutSprint ==
  SprintAbsent =>
     /\ CallsTo({"create", "update", "assign"}) = {}
     /\ pc # "done"
     /\ outputs = <<>>
     /\ Ended => failures # <<>>

C5_Witness ==
  /\ pc = "failed"
  /\ SprintAbsent
  /\ tracker.sprints = <<Sprint(1, "backlog")>>
  /\ Found
  /\ ~StrippedEqual
  /\ AllResolved
  /\ failures[1].message = <<"Sprint \"", "Backlog", "\" not found">>

(* C6: in every run at most one issue is created or updated: the create    *)
(* POSTs that succeeded plus the distinct issues a PUT was sent for number *)
(* at most one, and a PUT or a sprint assignment for an existing issue is  *)
(* for the first element of the search result.                             *)
C6_AtMostOneIssue ==
  /\ Cardinality({i \in CallsTo({"create"}) : calls[i].result = "resolved"})
       + Cardinality({calls[i].key : i \in CallsTo({"update"})}) <= 1
  /\ \A i \in CallsTo({"update"}) : Found /\ calls[i].key = FoundKey
  /\ \A i \in CallsTo({"assign"}) : Found => calls[i].key = FoundKey

C6_Witness ==
  /\ pc = "done"
  /\ Len(existingIssues.list) = 2
  /\ OpsOf(calls) = <<"search", "sprint", "update", "assign">>
  /\ calls[3].key = "PROJ-5"
  /\ calls[4].key = "PROJ-5"
  /\ tracker.issues[1].description = updatedDescription
  /\ tracker.issues[2] = existingIssues.list[2]

(* C7: when a required input is missing or empty, no request is ever sent  *)
(* in the run, and the run fails with a message that names the first       *)
(* missing input in the order of declaration.                              *)
C7_MissingInputFailsFast ==
  MissingInputs(inputs) # {} =>
     /\ calls = <<>>
     /\ http = NoRequest
     /\ outputs = <<>>
     /\ pc \in {"start", "rejected", "failed"}
     /\ pc = "failed" => Len(failures) = 2
     /\ \A i \in 1..Len(failures) :
          failures[i].message =
            <<"Missing required input: ", requiredInputs[Min(MissingInputs(inputs))]>>

C7_Witness ==
  /\ pc = "failed"
  /\ MissingInputs(inputs) = {3, 6, 8}
  /\ failures = << [prefix |-> FailedPrefix,
                    message |-> <<"Missing required input: ", "jira_api_token">>],
                   [prefix |-> UnhandledPrefix,
                    message |-> <<"Missing required input: ", "jira_api_token">>] >>

(* C8: a run ends either failed and without output, or not failed and with *)
(* one output that is the key the tracker gave the issue found or created, *)
(* never an undefined key.                                                 *)
C8_FailureOrKey ==
  Ended =>
     \/ failures # <<>> /\ outputs = <<>>
     \/ /\ failures = <<>>
        /\ Len(outputs) = 1
        /\ outputs[1] # Undefined
        /\ \E i \in 1..Len(tracker.issues) : tracker.issues[i].key = outputs[1]

\* The attempt in flight is answered with status 429.
RateLimited ==
  /\ http.state = "inflight"
  /\ http'.outcomes = Append(http.outcomes, "429")

On429 ==
  RateLimited =>
     IF http.retries > 0
     THEN /\ http'.state = "timer"
          /\ http'.waits = Append(http.waits, http.delay)
          /\ http'.retries = http.retries
          /\ http'.delay = http.delay
          /\ promise' = promise
          /\ promise.state = "pending"
     ELSE /\ http'.state = "idle"
          /\ http'.waits = http.waits
          /\ promise'.state = "rejected"
          /\ promise'.error.message = <<"HTTP ", "429", ": ", ErrorBody>>

OnRetry ==
  (http.state = "timer") =>
     /\ http'.state = "inflight"
     /\ http'.retries = http.retries - 1
     /\ http'.delay = 2 * http.delay
     /\ http'.op = http.op
     /\ http'.key = http.key
     /\ http'.description = http.description
     /\ http'.outcomes = http.outcomes
     /\ promise' = promise

RetriedOnceThenSuccess ==
  (Len(http.outcomes) = 2 /\ http.outcomes[1] = "429"
     /\ http.outcomes[2] \in {"200", "299"}) =>
       /\ promise.state = "resolved"
       /\ http.state = "idle"
       /\ http.waits = <<DefaultDelay>>

(* C9: an attempt with budget r and delay d that is answered 429 sets a    *)
(* timer of d when r > 0, and the timer starts one new attempt with budget *)
(* r-1 and delay 2d which settles the same promise; when r = 0 the call is *)
(* rejected at once with "HTTP 429: <body>" and no timer is set.  A call   *)
(* answered 429 and then 2xx is resolved after its second attempt.         *)
C9_RateLimitRetry == [][On429 /\ OnRetry /\ RetriedOnceThenSuccess']_vars

C9_Witness ==
  /\ http.op = "create"
  /\ http.outcomes = <<"429", "200">>
  /\ http.waits = <<DefaultDelay>>
  /\ promise.state = "resolved"
  /\ promise.value.key = "PROJ-7"

AllRateLimited == \A i \in 1..Len(http.outcomes) : http.outcomes[i] = "429"

(* C10: every remote call starts with budget 3 and delay 1000 ms; the      *)
(* waits before its retries are 1000, 2000 and 4000 ms in this order; a    *)
(* call that is answered 429 on every attempt fails after exactly these    *)
(* three waits, on its fourth attempt.                                     *)
C10_BackoffSchedule ==
  /\ http.waits = SubSeq(<<1000, 2000, 4000>>, 1, Len(http.waits))
  /\ http.state = "inflight" =>
        /\ http.retries = 3 - Len(http.waits)
        /\ http.delay = <<1000, 2000, 4000, 8000>>[Len(http.waits) + 1]
  /\ http.state = "timer" => http.waits[Len(http.waits)] = http.delay
  /\ (http.state = "inflight" /\ http.outcomes = <<>>) =>
        http.retries = 3 /\ http.delay = 1000
  /\ (AllRateLimited /\ promise.state = "rejected") =>
        /\ http.waits = <<1000, 2000, 4000>>
        /\ Len(http.outcomes) = 4
  /\ (AllRateLimited /\ Len(http.outcomes) < 4) => promise.state = "pending"

C10_Witness ==
  /\ http.outcomes = <<"429", "429", "429", "429">>
  /\ http.waits = <<1000, 2000, 4000>>
  /\ promise.state = "rejected"
  /\ Len(calls) = 2
  /\ calls[2].result = "rejected"

LastOutcome == http.outcomes[Len(http.outcomes)]

(* C11: an attempt answered with a status outside 200-299 other than 429   *)
(* rejects the call at once with "HTTP <status>: <body>": no timer is set  *)
(* and no further attempt is made, whatever budget is left.                *)
C11_HardFailure ==
  (Len(http.outcomes) > 0 /\ LastOutcome \in {"300", "500"}) =>
     /\ http.state = "idle"
     /\ Len(http.waits) = Len(http.outcomes) - 1
     /\ promise.state = "rejected"
     /\ promise.error.message = <<"HTTP ", LastOutcome, ": ", ErrorBody>>
     /\ calls[Len(calls)].result = "rejected"

C11_Witness ==
  /\ http.outcomes = <<"500">>
  /\ http.retries = DefaultRetries
  /\ http.waits = <<>>
  /\ promise.state = "rejected"
  /\ pc = "failed"
  /\ OpsOf(calls) = <<"search", "sprint", "update">>

\* The attempt in flight ends in a network error.
NetworkFailed ==
  /\ http.state = "inflight"
  /\ http'.outcomes = Append(http.outcomes, "error")

OnNetworkError ==
  NetworkFailed =>
     IF http.retries > 0
     THEN /\ http'.state = "timer"
          /\ http'.waits = Append(http.waits, http.delay)
          /\ http'.retries = http.retries
          /\ http'.delay = http.delay
          /\ promise' = promise
          /\ promise.state = "pending"
     ELSE /\ http'.state = "idle"
          /\ http'.waits = http.waits
          /\ promise'.state = "rejected"
          /\ promise'.error = NetworkError

\* 429 answers and network errors of one call draw on one budget.
SharedBudget ==
  http.state \in {"inflight", "timer"} =>
     /\ \A i \in 1..Len(http.outcomes) : http.outcomes[i] \in {"429", "error"}
     /\ Len(http.waits) = Len(http.outcomes)
     /\ http.retries + Len(http.outcomes) =
          DefaultRetries + (IF http.state = "timer" THEN 1 ELSE 0)

(* C12: an attempt with budget r and delay d that ends in a network error  *)
(* sets a timer of d when r > 0, after which one new attempt runs with     *)
(* budget r-1 and delay 2d; with r = 0 the call is rejected with that      *)
(* error itself.  429 answers and network errors use up the same budget.   *)
C12_NetworkErrorRetry == [][OnNetworkError /\ OnRetry /\ SharedBudget']_vars

C12_Witness ==
  /\ http.outcomes = <<"429", "error", "429", "error">>
  /\ http.waits = <<1000, 2000, 4000>>
  /\ promise.state = "rejected"
  /\ promise.error = NetworkError

ParseInt(text) == CHOOSE n \in 0..9 : <<ToString(n)>> = text

ConfiguredRetries ==
  IF inputs.retry_count = <<>> THEN 3 ELSE ParseInt(inputs.retry_count)

(* C13: the first attempt of every remote call of a run has the budget     *)
(* given by the retry_count input, and 3 when that input is absent.        *)
C13_BudgetIsRetryCount ==
  (http.state = "inflight" /\ http.outcomes = <<>>) =>
     http.retries = ConfiguredRetries

\* The issues the tracker has created since the first run started.
CreatedIssues == tracker.nextKey - 7

(* C20: over successive runs with the same inputs, against a tracker whose *)
(* search returns every matching open issue, at most one issue is created: *)
(* a create POST is only sent while no run has created an issue, also when *)
(* the run that created it failed afterwards.                              *)
C20_AtMostOneCreated ==
  /\ CreatedIssues <= 1
  /\ \A i \in CallsTo({"create"}) :
        CreatedIssues = (IF calls[i].result = "resolved" THEN 1 ELSE 0)
  /\ (CreatedIssues = 1 /\ CallsTo({"create"}) = {}) => now > 1

C20_Witness ==
  /\ now = 2
  /\ CreatedIssues = 1
  /\ Found
  /\ FoundKey = KeyName(7)
  /\ CallsTo({"create"}) = {}
  /\ pc = "done"

\* The callers that read a field of the answer: issues, values, key.
StructuredCallers == {"search", "sprint", "create"}

(* C17: once search, sprint resolution or create has been answered 2xx     *)
(* with text that is not JSON, the call returns that text, its caller      *)
(* fails, and the run ends failed: it never completes, emits no key, and   *)
(* after such a create no assignment is sent for the missing key.          *)
C17_RawBodyFailsRun ==
  (rawBody \cap StructuredCallers # {}) =>
     /\ \A i \in CallsTo(rawBody) : calls[i].result = "resolved"
     /\ pc # "done"
     /\ outputs = <<>>
     /\ "create" \in rawBody => CallsTo({"assign"}) = {}

\* removeTimestamp has been applied to a description with a trailer appended.
StrippedTrailer == strip.stage \in {"once", "twice"} /\ strip.made = "trailer"

\* C14 as stated: for every description D and every timestamp text T,
\* removeTimestamp(D + "\n\nLast updated: " + T) equals D.
C14_StripsEveryStamp == StrippedTrailer => strip.once = strip.description

(* C14, amended: for every description D and every timestamp text T that   *)
(* is not empty and holds no newline, removeTimestamp(D + "\n\nLast       *)
(* updated: " + T) equals D.                                               *)
C14_StripsOneLineStamp ==
  (StrippedTrailer /\ strip.stamp # <<>> /\ NoNewline(strip.stamp)) =>
     strip.once = strip.description

C14_Witness ==
  /\ StrippedTrailer
  /\ strip.description = <<"a", NL, NL, LastUpdatedLabel>>
  /\ strip.stamp = <<LastUpdatedLabel, "a">>
  /\ strip.once = strip.description

\* The places of a text where "\n\nLast updated: " stands.
LabelPlaces(s) ==
  {i \in 1..Len(s) : i + 2 <= Len(s) /\ s[i] = NL /\ s[i + 1] = NL
                                      /\ s[i + 2] = LastUpdatedLabel}

\* C15 as stated: removeTimestamp(removeTimestamp(D)) = removeTimestamp(D)
\* for every text D, texts with several trailers included.
C15_Idempotent == strip.stage = "twice" => strip.twice = strip.once

(* C15, amended: removeTimestamp(removeTimestamp(D)) = removeTimestamp(D)  *)
(* for every text D in which "\n\nLast updated: " stands at most once.     *)
C15_IdempotentOneTrailer ==
  (strip.stage = "twice" /\ Cardinality(LabelPlaces(strip.text)) <= 1) =>
     strip.twice = strip.once

C15_Witness ==
  /\ strip.stage = "twice"
  /\ strip.text = <<"a", NL, NL, LastUpdatedLabel, "a", "a">>
  /\ strip.once = <<"a">>
  /\ strip.twice = <<"a">>

\* The request attempts in flight and the retry timers pending.
OutstandingAttempts ==
  (IF http.state \in {"inflight", "timer"} THEN 1 ELSE 0)
  + (IF stray.state \in {"inflight", "timer"} THEN 1 ELSE 0)

CallOrders ==
  { <<"search", "sprint", "update", "assign">>,
    <<"search", "sprint", "create", "assign">> }

IsPrefix(s, t) == Len(s) <= Len(t) /\ SubSeq(t, 1, Len(s)) = s

(* C16: the remote calls of a run are made one after another, each after   *)
(* the one before it has returned, in the order search, sprint resolution, *)
(* PUT or create, assignment; and at no time is more than one request      *)
(* attempt or retry timer of the run outstanding, also when the error      *)
(* handler of an attempt fires after its response handler.                 *)
C16_OneAtATime ==
  /\ \E order \in CallOrders : IsPrefix(OpsOf(calls), order)
  /\ \A i \in 1..(Len(calls) - 1) : calls[i].result = "resolved"
  /\ OutstandingAttempts <= 1

BothRuns == {ThisRun, other}

SentCreate(run) == \E i \in 1..Len(run.calls) : run.calls[i].op = "create"

Created(run) ==
  \E i \in 1..Len(run.calls) :
     run.calls[i].op = "create" /\ run.calls[i].result = "resolved"

SawNoIssue(run) == run.existingIssues = [defined |-> TRUE, list |-> <<>>]

(* C18: two runs with the same inputs, executing at the same time on a     *)
(* tracker without a matching issue, can both get an empty search result   *)
(* and both send the create POST; the tracker then holds two issues for    *)
(* the summary.  A run sends the create POST exactly on its own empty      *)
(* search result, and the tracker holds one issue for every run whose      *)
(* create POST was answered 2xx.                                           *)
C18_BothCreate ==
  /\ \A run \in BothRuns : SentCreate(run) => SawNoIssue(run)
  /\ Len(tracker.issues) = Cardinality({run \in BothRuns : Created(run)})
  /\ (\A run \in BothRuns : Created(run)) =>
        /\ tracker.issues[1].key # tracker.issues[2].key
        /\ \A i \in 1..2 :
              tracker.issues[i].description \in
                {UpdatedDescription(inputs.issue_description, run.now) :
                   run \in BothRuns}

C18_Witness ==
  /\ \A run \in BothRuns : SawNoIssue(run) /\ Created(run) /\ run.pc = "done"
  /\ Len(tracker.issues) = 2
  /\ other.now # now
  /\ outputs # other.outputs

Settled == promise.state # "pending"

\* A settled promise stays as it is until the next call makes a new one.
SettlesOnce ==
  Settled => \/ promise' = promise
             \/ promise' = PendingPromise /\ Len(calls') = Len(calls) + 1
             \/ promise' = PendingPromise /\ calls' = <<>>

AttemptsBounded ==
  /\ Len(http.outcomes) <= DefaultRetries + 1
  /\ Len(calls) <= 4
  /\ http.state = "idle" /\ http.op # "none" => Settled

(* C19: when every attempt yields an answer or a network error, every      *)
(* call, starting with budget 3, makes at most 4 attempts and its promise  *)
(* is settled, once; and every run, making at most four calls, reaches     *)
(* done or failed.                                                         *)
C19_Terminates ==
  /\ []AttemptsBounded
  /\ [][SettlesOnce]_vars
  /\ (http.state \in {"inflight", "timer"}) ~> Settled
  /\ (~Ended) ~> Ended

C19_Witness ==
  /\ pc = "failed"
  /\ Len(calls) = 4
  /\ Len(http.outcomes) = DefaultRetries + 1
  /\ promise.state = "rejected"
  /\ now = MaxRuns

====
